---- MODULE Spec2Model ----
(***************************************************************************)
(* Model of the memory-augmented LangChain agent: credential loading       *)
(* (cred.py), client and agent construction (client.py, agent.py), and the *)
(* interactive session loop (main.py) driving the pipeline                 *)
(* retrieve_memories -> context building -> agent.invoke ->                *)
(* save_interaction (agent.py).                                            *)
(*                                                                         *)
(* The language model / agent graph (create_agent(...).invoke) and the     *)
(* Mem0 store are external collaborators: each call to them is a           *)
(* nondeterministic choice over the outcomes the call can have (a value,   *)
(* an Exception, a KeyboardInterrupt).  run_example_queries (main.py       *)
(* 121-157) is not modelled beyond the mode choice that leads to it.       *)
(*                                                                         *)
(* Text is a sequence of one-character strings, so that strip / split /    *)
(* lower are computed as Python computes them.                             *)
(***************************************************************************)
EXTENDS Integers, Sequences, FiniteSets, TLC

\* ---------------------------------------------------------------- bounds
MaxLen == 3        \* longest raw input line drawn over the alphabet
MaxTurns == 1      \* cap on conversation_count
MaxFacts == 1      \* cap on facts held by the store per user
MaxStored == 6     \* facts per user in the store a single recall is tried on

\* ------------------------------------------------------- program constants
RECALL_MIN_WORDS == 3
SEARCH_LIMIT == 5

USER_ID == "Hemant"
DEFAULT_USER == "default_user"
Users == {USER_ID, DEFAULT_USER}

Secrets == {"GEMINI_API_KEY", "WEATHER_API_KEY", "MEM0_API_KEY"}
EnvValues == {"unset", "", "key"}

Whitespace == {" ", "\t"}
Alphabet == {"a", " "}

\* ------------------------------------------------------------ text helpers
Min(a, b) == IF a < b THEN a ELSE b

RECURSIVE lstrip(_)
lstrip(s) ==
    IF s = <<>> THEN <<>>
    ELSE IF Head(s) \in Whitespace THEN lstrip(Tail(s)) ELSE s

RECURSIVE rstrip(_)
rstrip(s) ==
    IF s = <<>> THEN <<>>
    ELSE IF s[Len(s)] \in Whitespace THEN rstrip(SubSeq(s, 1, Len(s) - 1)) ELSE s

\* str.strip()
strip(s) == rstrip(lstrip(s))

\* the first whitespace-free run of s
RECURSIVE first_word(_)
first_word(s) ==
    IF s = <<>> \/ Head(s) \in Whitespace THEN <<>>
    ELSE <<Head(s)>> \o first_word(Tail(s))

\* str.split() with no separator: runs of whitespace separate, no empty words
RECURSIVE split(_)
split(s) ==
    LET t == lstrip(s)
        w == first_word(t)
    IN  IF t = <<>> THEN <<>>
        ELSE <<w>> \o split(SubSeq(t, Len(w) + 1, Len(t)))

lower_char(c) ==
    CASE c = "Q" -> "q"
      [] c = "U" -> "u"
      [] c = "I" -> "i"
      [] c = "T" -> "t"
      [] c = "B" -> "b"
      [] c = "Y" -> "y"
      [] c = "E" -> "e"
      [] c = "X" -> "x"
      [] c = "C" -> "c"
      [] c = "L" -> "l"
      [] c = "A" -> "a"
      [] c = "R" -> "r"
      [] OTHER -> c

\* str.lower()
lower(s) == [i \in 1..Len(s) |-> lower_char(s[i])]

EXIT_COMMANDS ==
    { <<"e","x","i","t">>, <<"q","u","i","t">>, <<"b","y","e">>, <<"q">> }
CLEAR_COMMAND == <<"c","l","e","a","r">>

\* lines the user may type: every line over Alphabet up to MaxLen, the
\* control words in several spellings, and longer sentences
CommandLines ==
    { <<"e","x","i","t">>, <<"Q","u","i","t">>, <<"B","Y","E">>, <<"q">>,
      <<" ","Q"," ">>, <<"q","q">>, <<"c","l","e","a","r">>,
      <<"C","l","e","a","r"," ">>, <<"e","x","i","t"," ","a"," ","a">> }
SentenceLines ==
    { <<"a"," ","a"," ","a">>, <<" ","a"," "," ","a","\t","a"," ">>,
      <<"a","\t","a">> }
BoundedLines == UNION { [1..n -> Alphabet] : n \in 0..MaxLen }
RawInputs == BoundedLines \cup CommandLines \cup SentenceLines

\* input("You: ").strip() over the lines the user may type
InputLines == { strip(raw) : raw \in RawInputs }


\* ------------------------------------------------------------- exceptions
\* kinds of raised objects; "none" = nothing raised.  KeyboardInterrupt is a
\* BaseException and is not matched by `except Exception`.
ExceptionSubclasses ==
    {"Exception", "KeyError", "IndexError", "AttributeError", "EOFError",
     "ValueError", "TypeError", "SyntaxError", "ZeroDivisionError",
     "OverflowError", "NameError", "URLError", "JSONDecodeError"}
is_Exception(e) == e \in ExceptionSubclasses

\* ------------------------------------------------------------------ cred.py
\* os.getenv(name, ""): an unset variable reads as the empty string
getenv(environ, name) == IF environ[name] = "unset" THEN "" ELSE environ[name]

\* variant: the check of the memory store key is missing
validate_credentials_unchecked_memo(gemini_api_key, weather_api_key, memo_api_key) ==
    IF gemini_api_key = "" THEN "GEMINI_API_KEY"
    ELSE IF weather_api_key = "" THEN "WEATHER_API_KEY"
    ELSE "validated"

\* the three `if not <key>: raise EnvironmentError` checks, in order
validate_credentials(gemini_api_key, weather_api_key, memo_api_key) ==
    IF gemini_api_key = "" THEN "GEMINI_API_KEY"
    ELSE IF weather_api_key = "" THEN "WEATHER_API_KEY"
    ELSE IF memo_api_key = "" THEN "MEM0_API_KEY"
    ELSE "validated"

\* ------------------------------------------------------------- the messages
SystemMessage(c) == [role |-> "system", content |-> c]
HumanMessage(c) == [role |-> "human", content |-> c]
AIMessage(c) == [role |-> "ai", content |-> c]

system_prompt == SystemMessage([policy |-> "system_prompt", memory |-> <<>>, rules |-> FALSE])

\* ------------------------------------------------------------ the Mem0 store
\* The store holds, per user_id, the facts added under that user_id; the n-th
\* fact persisted under u has the text <<u, n>>.
Fact(u, n) == [memory |-> <<u, n>>]

SearchOracles ==
    [kind : {"results"}, k : 0..MaxFacts]
      \cup [kind : {"no_results_key", "not_a_dict", "raise", "interrupt"}, k : {0}]

\* mem0.search(query=..., filters={"user_id": ...}, limit=...): the reply the
\* store gives to a request, as the oracle decides.  The store decides how
\* many of the user's facts it returns, best first; request.limit is what the
\* caller asks for.
mem0_search(st, request, oracle) ==
    LET u == request.filters_user_id
        n == Min(oracle.k, st[u])
    IN  CASE oracle.kind = "results" ->
               [raised |-> "none", shape |-> "dict",
                results |-> [i \in 1..n |-> Fact(u, i)]]
          [] oracle.kind = "no_results_key" ->
               [raised |-> "none", shape |-> "dict_without_results", results |-> <<>>]
          [] oracle.kind = "not_a_dict" ->
               [raised |-> "none", shape |-> "list", results |-> <<>>]
          [] oracle.kind = "raise" ->
               [raised |-> "Exception", shape |-> "none", results |-> <<>>]
          [] OTHER ->
               [raised |-> "KeyboardInterrupt", shape |-> "none", results |-> <<>>]

AddOracles == {"added", "nothing_added", "raise", "interrupt"}

QuietSearch == [kind |-> "results", k |-> 0]
QuietAdd == "nothing_added"

\* mem0.add(interaction, user_id=...): the store after the call and what the
\* call raised
mem0_add(st, add_user_id, oracle) ==
    CASE oracle = "added" ->
           [raised |-> "none", store |-> [st EXCEPT ![add_user_id] = @ + 1]]
      [] oracle = "nothing_added" -> [raised |-> "none", store |-> st]
      [] oracle = "raise" -> [raised |-> "Exception", store |-> st]
      [] OTHER -> [raised |-> "KeyboardInterrupt", store |-> st]

\* ----------------------------------------------------------------- agent.py
\* variant: the threshold is one word lower
is_short_query_two_words(query) == Len(split(strip(query))) < 2

\* len(query.strip().split()) < 3
is_short_query(query) == Len(split(strip(query))) < RECALL_MIN_WORDS

\* variant: the search is filtered by the default user, not the turn's
search_request_default_user(query, uid) ==
    [query |-> query, filters_user_id |-> DEFAULT_USER, limit |-> SEARCH_LIMIT]

\* variant: another limit is passed to the store
search_request_limit_10(query, uid) ==
    [query |-> query, filters_user_id |-> uid, limit |-> 10]

\* the arguments of the mem0.search call
search_request(query, uid) ==
    [query |-> query, filters_user_id |-> uid, limit |-> SEARCH_LIMIT]

\* variant: no except clause, the failure leaves retrieve_memories
retrieve_memories_handler_reraise(e) == "propagate"

\* `except Exception as e: ... return ""` of retrieve_memories
retrieve_memories_handler(e) == IF is_Exception(e) THEN "return_empty" ELSE "propagate"

\* "\n".join(f"- {mem['memory']}" for mem in memory_list)
serialize(memory_list) == [i \in 1..Len(memory_list) |-> <<"- ", memory_list[i].memory>>]

retrieve_memories(query, uid, st, oracle) ==
    IF is_short_query(query)
    THEN [raised |-> "none", ret |-> <<>>, search_calls |-> <<>>]
    ELSE
      LET request == search_request(query, uid)
          reply == mem0_search(st, request, oracle)
          \* memories.get("results", []) on a non-dict raises AttributeError
          body_raised ==
              IF reply.raised # "none" THEN reply.raised
              ELSE IF reply.shape = "list" THEN "AttributeError"
              ELSE "none"
          memory_list == reply.results
          call == [request |-> request, reply |-> reply]
      IN  IF body_raised # "none"
          THEN IF retrieve_memories_handler(body_raised) = "return_empty"
               THEN [raised |-> "none", ret |-> <<>>, search_calls |-> <<call>>]
               ELSE [raised |-> body_raised, ret |-> <<>>, search_calls |-> <<call>>]
          ELSE IF memory_list = <<>>
               THEN [raised |-> "none", ret |-> <<>>, search_calls |-> <<call>>]
               ELSE [raised |-> "none", ret |-> serialize(memory_list),
                     search_calls |-> <<call>>]

\* variant: the assistant's answer is not put into the interaction
add_request_no_answer(uid, user_input_, assistant_response_) ==
    [user_id |-> uid,
     interaction |-> << [role |-> "user", content |-> user_input_],
                        [role |-> "assistant", content |-> ""] >>]

\* the arguments of the mem0.add call
add_request(uid, user_input_, assistant_response_) ==
    [user_id |-> uid,
     interaction |-> << [role |-> "user", content |-> user_input_],
                        [role |-> "assistant", content |-> assistant_response_] >>]

\* variant: the except clause re-raises
save_interaction_handler_reraise(e) == "propagate"

\* `except Exception as e: logger.error(...)` of save_interaction
save_interaction_handler(e) == IF is_Exception(e) THEN "swallow" ELSE "propagate"

save_interaction(uid, user_input_, assistant_response_, st, oracle) ==
    LET request == add_request(uid, user_input_, assistant_response_)
        reply == mem0_add(st, request.user_id, oracle)
    IN  [raised |-> IF reply.raised = "none" THEN "none"
                    ELSE IF save_interaction_handler(reply.raised) = "swallow" THEN "none"
                    ELSE reply.raised,
         add_calls |-> <<[request |-> request, reply |-> [raised |-> reply.raised]]>>,
         store |-> reply.store]

\* SystemMessage(content=f"{system_prompt.content} ## MEMORY CONTEXT {memory_context} Rules: ...")
enhanced_system_prompt(memory_context_) ==
    SystemMessage([policy |-> system_prompt.content.policy,
                   memory |-> memory_context_, rules |-> TRUE])

\* variant: the enhanced prompt is prepended, the old one is kept
build_enhanced_messages_prepend(enhanced, msgs) == <<enhanced>> \o msgs

\* variant: the slice starts one message too late
build_enhanced_messages_slice2(enhanced, msgs) == <<enhanced>> \o Tail(Tail(msgs))

\* [enhanced_system_prompt] + messages["messages"][1:]
build_enhanced_messages(enhanced, msgs) == <<enhanced>> \o Tail(msgs)

Answers == {"", "answer"}
AgentOracles ==
    [kind : {"final"}, content : Answers]
      \cup [kind : {"raise", "no_messages_key", "interrupt"}, content : {""}]

\* create_agent(model, tools).invoke(enhanced_messages): what the call returns
\* or raises, as the oracle decides
agent_invoke(enhanced_messages_, oracle) ==
    CASE oracle.kind = "final" ->
           [raised |-> "none", has_messages |-> TRUE,
            messages |-> enhanced_messages_ \o <<AIMessage(oracle.content)>>]
      [] oracle.kind = "no_messages_key" ->
           [raised |-> "none", has_messages |-> FALSE, messages |-> <<>>]
      [] oracle.kind = "raise" ->
           [raised |-> "Exception", has_messages |-> FALSE, messages |-> <<>>]
      [] OTHER ->
           [raised |-> "KeyboardInterrupt", has_messages |-> FALSE, messages |-> <<>>]

NoCall == [raised |-> "none", response |-> <<>>, memory_context |-> <<>>,
           search_calls |-> <<>>, agent_calls |-> <<>>, add_calls |-> <<>>]

invoke_agent_with_memory(msgs, uid, st, so, ao, po) ==
    IF msgs = <<>>
    THEN [NoCall EXCEPT !.raised = "IndexError"] @@ [store |-> st]
    ELSE
      LET user_query == msgs[Len(msgs)].content
          rm == retrieve_memories(user_query, uid, st, so)
          enhanced_messages_ ==
              build_enhanced_messages(enhanced_system_prompt(rm.ret), msgs)
          reply == agent_invoke(enhanced_messages_, ao)
          agent_call == [request |-> enhanced_messages_, reply |-> reply]
          extract_raised ==
              IF reply.raised # "none" THEN reply.raised
              ELSE IF ~reply.has_messages THEN "KeyError"
              ELSE IF reply.messages = <<>> THEN "IndexError"
              ELSE "none"
          assistant_response_ == reply.messages[Len(reply.messages)].content
          si == save_interaction(uid, user_query, assistant_response_, st, po)
      IN  IF rm.raised # "none"
          THEN [NoCall EXCEPT !.raised = rm.raised, !.search_calls = rm.search_calls]
                 @@ [store |-> st]
          ELSE IF extract_raised # "none"
          THEN [raised |-> extract_raised, response |-> <<>>,
                memory_context |-> rm.ret, search_calls |-> rm.search_calls,
                agent_calls |-> <<agent_call>>, add_calls |-> <<>>,
                store |-> st]
          ELSE [raised |-> si.raised,
                response |-> IF si.raised = "none" THEN reply.messages ELSE <<>>,
                memory_context |-> rm.ret, search_calls |-> rm.search_calls,
                agent_calls |-> <<agent_call>>, add_calls |-> si.add_calls,
                store |-> si.store]


\* ----------------------------------------------------- tools.py: numbers
\* A Python number is  [err, float, neg, mag, den]:  the value (-1)^neg *
\* mag / den, an int when float = FALSE and a double when float = TRUE.  mag
\* is a sequence of bits, least significant first, without leading zeros, so
\* that ints are unbounded as Python's are; den > 1 only for small fractions.
\* err names what the operation raised ("none" when it returned), and
\* "unmodelled" marks an operation this model does not compute.
DOUBLE_MANT_DIG == 53
LIMB_BITS == 15
LIMB == 2 ^ LIMB_BITS

\* mag is held in limbs of LIMB_BITS bits, least significant first
RECURSIVE Bits(_)
Bits(n) == IF n = 0 THEN <<>> ELSE <<n % LIMB>> \o Bits(n \div LIMB)

\* the value of a magnitude of at most one limb
Val(b) == IF b = <<>> THEN 0 ELSE b[1]

RECURSIVE Trim(_)
Trim(b) ==
    IF b = <<>> THEN <<>>
    ELSE IF b[Len(b)] = 0 THEN Trim(SubSeq(b, 1, Len(b) - 1)) ELSE b

RECURSIVE AddCarry(_, _, _)
AddCarry(a, b, c) ==
    IF a = <<>> /\ b = <<>> THEN (IF c = 0 THEN <<>> ELSE <<c>>)
    ELSE LET x == IF a = <<>> THEN 0 ELSE Head(a)
             y == IF b = <<>> THEN 0 ELSE Head(b)
             t == x + y + c
         IN  <<t % LIMB>> \o AddCarry(IF a = <<>> THEN <<>> ELSE Tail(a),
                                      IF b = <<>> THEN <<>> ELSE Tail(b), t \div LIMB)
AddBits(a, b) == AddCarry(a, b, 0)

\* a - b for a >= b
RECURSIVE SubBorrow(_, _, _)
SubBorrow(a, b, c) ==
    IF a = <<>> THEN <<>>
    ELSE LET y == IF b = <<>> THEN 0 ELSE Head(b)
             t == Head(a) - y - c
         IN  <<(t + LIMB) % LIMB>> \o SubBorrow(Tail(a), IF b = <<>> THEN <<>> ELSE Tail(b),
                                                IF t < 0 THEN 1 ELSE 0)
SubBits(a, b) == Trim(SubBorrow(a, b, 0))

RECURSIVE LessFromTop(_, _, _)
LessFromTop(a, b, i) ==
    IF i = 0 THEN FALSE
    ELSE IF a[i] # b[i] THEN a[i] < b[i]
    ELSE LessFromTop(a, b, i - 1)
LessBits(a, b) ==
    IF Len(a) # Len(b) THEN Len(a) < Len(b) ELSE LessFromTop(a, b, Len(a))

\* a * d + c for one limb d
RECURSIVE MulLimb(_, _, _)
MulLimb(a, d, c) ==
    IF a = <<>> THEN (IF c = 0 THEN <<>> ELSE <<c>>)
    ELSE LET t == Head(a) * d + c
         IN  <<t % LIMB>> \o MulLimb(Tail(a), d, t \div LIMB)

RECURSIVE MulBits(_, _)
MulBits(a, b) ==
    IF a = <<>> \/ b = <<>> THEN <<>>
    ELSE LET rest == MulBits(a, Tail(b))
             shifted == IF rest = <<>> THEN <<>> ELSE <<0>> \o rest
         IN  Trim(AddBits(MulLimb(a, Head(b), 0), shifted))

RECURSIVE PowBits(_, _)
PowBits(a, n) ==
    IF n = 0 THEN <<1>>
    ELSE LET h == PowBits(a, n \div 2)
             sq == MulBits(h, h)
         IN  IF n % 2 = 1 THEN MulBits(a, sq) ELSE sq

RECURSIVE Gcd(_, _)
Gcd(a, b) == IF b = 0 THEN a ELSE Gcd(b, a % b)

\* the number of binary digits of a magnitude
BitLen(b) ==
    IF b = <<>> THEN 0
    ELSE (Len(b) - 1) * LIMB_BITS
           + (CHOOSE k \in 1..LIMB_BITS : 2 ^ (k - 1) <= b[Len(b)] /\ b[Len(b)] < 2 ^ k)

\* binary digit i (from 1, least significant) of a magnitude
BitAt(b, i) == (b[((i - 1) \div LIMB_BITS) + 1] \div (2 ^ ((i - 1) % LIMB_BITS))) % 2

RECURSIVE LimbOf(_, _, _)
LimbOf(bit, j, k) ==
    IF k = LIMB_BITS THEN 0
    ELSE LET i == (j - 1) * LIMB_BITS + k + 1
         IN  (IF i \in DOMAIN bit THEN bit[i] * 2 ^ k ELSE 0) + LimbOf(bit, j, k + 1)

\* the magnitude with the given binary digits
FromBinary(bit) ==
    Trim([j \in 1..((Len(bit) + LIMB_BITS - 1) \div LIMB_BITS) |-> LimbOf(bit, j, 0)])

\* the nearest double to the integer with magnitude b, ties to even
RoundToDouble(b) ==
    IF BitLen(b) <= DOUBLE_MANT_DIG THEN b
    ELSE LET n == BitLen(b)
             d == n - DOUBLE_MANT_DIG
             half == BitAt(b, d) = 1
             sticky == \E i \in 1..(d - 1) : BitAt(b, i) = 1
             up == half /\ (sticky \/ BitAt(b, d + 1) = 1)
             kept == [i \in 1..n |-> IF i <= d THEN 0 ELSE BitAt(b, i)]
             \* adding one unit in the last kept place ripples through the ones
             zeros == {i \in (d + 1)..n : kept[i] = 0}
             z == IF zeros = {} THEN n + 1
                  ELSE CHOOSE i \in zeros : \A j \in zeros : i <= j
             bumped == [i \in 1..(IF z > n THEN n + 1 ELSE n) |->
                          IF i < z THEN 0 ELSE IF i = z THEN 1 ELSE kept[i]]
         IN  FromBinary(IF up THEN bumped ELSE kept)

Raise(e) == [err |-> e, float |-> FALSE, neg |-> FALSE, mag |-> <<>>, den |-> 1]
Unmodelled == Raise("unmodelled")

\* the number (-1)^neg * p / q for small p and q > 0, in lowest terms
Ratio(neg, p, q, isfloat) ==
    LET g == Gcd(p, q)
    IN  [err |-> "none", float |-> isfloat, neg |-> (neg /\ p # 0),
         mag |-> Bits(p \div g), den |-> q \div g]

\* an integer-valued number; a double holds the nearest representable value
Whole(neg, bits, isfloat) ==
    [err |-> "none", float |-> isfloat, neg |-> (neg /\ bits # <<>>),
     mag |-> IF isfloat THEN RoundToDouble(bits) ELSE bits, den |-> 1]

PyInt(n) == Whole(n < 0, Bits(IF n < 0 THEN 0 - n ELSE n), FALSE)

IsTiny(x) == Len(x.mag) <= 1 /\ x.den < LIMB
IsWhole(x) == x.den = 1

\* float(x)
to_float(x) ==
    IF x.err # "none" THEN x
    ELSE IF IsWhole(x) THEN Whole(x.neg, x.mag, TRUE)
    ELSE [x EXCEPT !.float = TRUE]

\* operator.add on two numbers
py_add(a, b) ==
    LET f == a.float \/ b.float
    IN  IF IsWhole(a) /\ IsWhole(b)
        THEN IF a.neg = b.neg THEN Whole(a.neg, AddBits(a.mag, b.mag), f)
             ELSE IF LessBits(a.mag, b.mag) THEN Whole(b.neg, SubBits(b.mag, a.mag), f)
             ELSE Whole(a.neg, SubBits(a.mag, b.mag), f)
        ELSE IF IsTiny(a) /\ IsTiny(b)
        THEN LET p == (IF a.neg THEN 0 - Val(a.mag) ELSE Val(a.mag)) * b.den
                        + (IF b.neg THEN 0 - Val(b.mag) ELSE Val(b.mag)) * a.den
             IN  Ratio(p < 0, IF p < 0 THEN 0 - p ELSE p, a.den * b.den, TRUE)
        ELSE Unmodelled

\* operator.neg
py_neg(a) == IF a.err # "none" THEN a ELSE [a EXCEPT !.neg = (~a.neg /\ a.mag # <<>>)]

\* operator.pos
py_pos(a) == a

\* operator.sub
py_sub(a, b) == py_add(a, py_neg(b))

\* operator.mul
py_mul(a, b) ==
    LET f == a.float \/ b.float
    IN  IF IsWhole(a) /\ IsWhole(b)
        THEN Whole(a.neg # b.neg, MulBits(a.mag, b.mag), f)
        ELSE IF IsTiny(a) /\ IsTiny(b)
        THEN Ratio(a.neg # b.neg, Val(a.mag) * Val(b.mag), a.den * b.den, TRUE)
        ELSE Unmodelled

\* operator.truediv: always a float
py_truediv(a, b) ==
    IF b.mag = <<>> THEN Raise("ZeroDivisionError")
    ELSE IF IsTiny(a) /\ IsTiny(b)
    THEN Ratio(a.neg # b.neg, Val(a.mag) * b.den, a.den * Val(b.mag), TRUE)
    ELSE Unmodelled

\* floor(a / b) as a signed integer, for small a and b # 0
FloorQuotient(a, b) ==
    LET p == Val(a.mag) * b.den
        q == a.den * Val(b.mag)
    IN  IF a.neg = b.neg THEN p \div q
        ELSE 0 - ((p + q - 1) \div q)

\* operator.floordiv
py_floordiv(a, b) ==
    IF b.mag = <<>> THEN Raise("ZeroDivisionError")
    ELSE IF IsTiny(a) /\ IsTiny(b)
    THEN LET k == FloorQuotient(a, b)
         IN  Whole(k < 0, Bits(IF k < 0 THEN 0 - k ELSE k), a.float \/ b.float)
    ELSE Unmodelled

\* operator.mod: a - b * floor(a / b)
py_mod(a, b) ==
    IF b.mag = <<>> THEN Raise("ZeroDivisionError")
    ELSE IF IsTiny(a) /\ IsTiny(b)
    THEN LET k == FloorQuotient(a, b)
             r == py_sub(a, py_mul(b, PyInt(k)))
         IN  IF r.err # "none" THEN r ELSE [r EXCEPT !.float = (a.float \/ b.float)]
    ELSE Unmodelled

\* operator.pow for an integer exponent
py_pow(a, b) ==
    LET f == a.float \/ b.float
        n == Val(b.mag)
    IN  IF ~(IsWhole(b) /\ IsTiny(b)) THEN Unmodelled
        \* powers wider than two mantissas are not computed here
        ELSE IF BitLen(a.mag) * n > 2 * DOUBLE_MANT_DIG THEN Unmodelled
        ELSE IF ~b.neg
        THEN IF IsWhole(a)
             THEN LET exact == PowBits(a.mag, n)
                  IN  \* math pow on doubles is exact only for representable results
                      IF f /\ RoundToDouble(exact) # exact THEN Unmodelled
                      ELSE Whole(a.neg /\ n % 2 = 1, exact, f)
             ELSE IF IsTiny(a) /\ n <= 2 /\ Val(a.mag) < 2 ^ 7 /\ a.den < 2 ^ 7
             THEN Ratio(a.neg /\ n % 2 = 1, Val(a.mag) ^ n, a.den ^ n, TRUE)
             ELSE Unmodelled
        ELSE IF a.mag = <<>> THEN Raise("ZeroDivisionError")
        ELSE IF IsWhole(a) /\ BitLen(a.mag) * n <= LIMB_BITS
        THEN Ratio(a.neg /\ n % 2 = 1, 1, Val(a.mag) ^ n, TRUE)
        ELSE Unmodelled

\* _ALLOWED_BIN_OPS
ALLOWED_BIN_OPS == {"Add", "Sub", "Mult", "Div", "FloorDiv", "Mod", "Pow"}
\* _ALLOWED_UNARY_OPS
ALLOWED_UNARY_OPS == {"UAdd", "USub"}

\* _ALLOWED_BIN_OPS[type(n.op)](left, right)
apply_bin_op(op, a, b) ==
    IF a.err # "none" THEN a
    ELSE IF b.err # "none" THEN b
    ELSE CASE op = "Add" -> py_add(a, b)
           [] op = "Sub" -> py_sub(a, b)
           [] op = "Mult" -> py_mul(a, b)
           [] op = "Div" -> py_truediv(a, b)
           [] op = "FloorDiv" -> py_floordiv(a, b)
           [] op = "Mod" -> py_mod(a, b)
           [] OTHER -> py_pow(a, b)

\* _ALLOWED_UNARY_OPS[type(n.op)](operand)
apply_unary_op(op, a) == IF op = "USub" THEN py_neg(a) ELSE py_pos(a)

\* --------------------------------------------------- tools.py: math_tool
\* An argument is a Python value  [type, ...].  A str handed to math_tool is
\* described by what strip() and ast.parse make of it: "blank" (empty after
\* strip), "malformed" (ast.parse raises SyntaxError) or "parsed" with the
\* ast of its body.  ast nodes are  [node |-> "Constant", value],
\* [node |-> "UnaryOp", op, operand],  [node |-> "BinOp", op, left, right],
\* and  [node |-> "Name"], "Call", "Attribute", "Str" for the rest.
None == [type |-> "NoneType"]
Constant(v) == [node |-> "Constant", value |-> v]
UnaryOp(o, e) == [node |-> "UnaryOp", op |-> o, operand |-> e]
BinOp(o, l, r) == [node |-> "BinOp", op |-> o, left |-> l, right |-> r]

\* the standard evaluator: Python's own value of an arithmetic expression,
\* where an int literal is an int
RECURSIVE python_eval(_)
python_eval(n) ==
    IF n.node = "Constant" THEN PyInt(n.value)
    ELSE IF n.node = "UnaryOp" THEN apply_unary_op(n.op, python_eval(n.operand))
    ELSE apply_bin_op(n.op, python_eval(n.left), python_eval(n.right))

\* `return float(n.value)` of _eval
eval_constant(v) == to_float(PyInt(v))

\* _eval of _safe_eval_math
RECURSIVE _eval(_)
_eval(n) ==
    IF n.node = "Constant" THEN eval_constant(n.value)
    ELSE IF n.node = "UnaryOp" /\ n.op \in ALLOWED_UNARY_OPS
    THEN apply_unary_op(n.op, _eval(n.operand))
    ELSE IF n.node = "BinOp" /\ n.op \in ALLOWED_BIN_OPS
    THEN apply_bin_op(n.op, _eval(n.left), _eval(n.right))
    ELSE Raise("ValueError")

_safe_eval_math(expr) ==
    IF expr.type # "str" THEN Raise("AttributeError")
    ELSE IF expr.source = "blank" THEN Raise("ValueError")
    ELSE IF expr.source = "malformed" THEN Raise("SyntaxError")
    ELSE _eval(expr.body)

Returned(v) == [state |-> "returned", error |-> "none", value |-> v]
ReturnedError(e, v) == [state |-> "returned", error |-> e, value |-> v]
Raised(e) == [state |-> "raised", error |-> e, value |-> <<>>]

math_tool_handler_reraise(e) == Raised(e)

\* `except Exception as e: return f"ERROR: {type(e).__name__}: {e}"`
math_tool_handler(e) ==
    IF is_Exception(e) THEN ReturnedError(e, <<"ERROR: ", e>>) ELSE Raised(e)

\* str(int(result)) or str(result): the text of the number.  For the fractions
\* of this model, abs(result - int(result)) < 1e-12 is true exactly of the
\* integer-valued results.
format_result(result) ==
    IF result.den = 1
    THEN [form |-> "int", neg |-> result.neg, mag |-> result.mag, den |-> 1]
    ELSE [form |-> "float", neg |-> result.neg, mag |-> result.mag, den |-> result.den]

math_tool(expression) ==
    LET result == _safe_eval_math(expression)
    IN  IF result.err # "none" THEN math_tool_handler(result.err)
        ELSE Returned(format_result(result))

\* ------------------------------------------- tools.py: text_analyzer_tool
\* A text is a sequence of atoms: a word or one whitespace character.
POS_WORDS == {"good", "great", "awesome", "amazing", "love", "excellent", "happy",
              "nice", "fantastic", "positive"}
NEG_WORDS == {"bad", "terrible", "awful", "hate", "poor", "sad", "angry", "worst",
              "negative", "horrible"}
TextAtoms == {"Good", "bad", " "}

\* len() of an atom
atom_len(a) == CASE a = "Good" -> 4 [] a = "bad" -> 3 [] OTHER -> 1

RECURSIVE text_len(_)
text_len(text) == IF text = <<>> THEN 0 ELSE atom_len(Head(text)) + text_len(Tail(text))

\* t.lower() of a token: adjacent word atoms form one longer word
lower_token(t) ==
    IF Len(t) # 1 THEN "other" ELSE IF t[1] = "Good" THEN "good" ELSE t[1]

RECURSIVE count_hits(_, _)
count_hits(tokens, words) ==
    IF tokens = <<>> THEN 0
    ELSE (IF lower_token(Head(tokens)) \in words THEN 1 ELSE 0)
           + count_hits(Tail(tokens), words)

text_analyzer_tool_handler_reraise(e) == Raised(e)

\* `except Exception as e: return {"error": f"{type(e).__name__}: {e}"}`
text_analyzer_tool_handler(e) ==
    IF is_Exception(e) THEN ReturnedError(e, [error |-> e]) ELSE Raised(e)

text_analyzer_tool(text) ==
    IF text.type = "NoneType" THEN text_analyzer_tool_handler("ValueError")
    ELSE IF text.type # "str" THEN text_analyzer_tool_handler("AttributeError")
    ELSE LET cleaned == strip(text.value)
             tokens == split(cleaned)
             pos_hits == count_hits(tokens, POS_WORDS)
             neg_hits == count_hits(tokens, NEG_WORDS)
         IN  IF cleaned = <<>> THEN text_analyzer_tool_handler("ValueError")
             ELSE Returned(
                    [word_count |-> Len(tokens),
                     character_count |-> text_len(text.value),
                     sentiment |-> IF pos_hits > neg_hits THEN "positive"
                                   ELSE IF neg_hits > pos_hits THEN "negative"
                                   ELSE "neutral",
                     sentiment_reason |->
                       IF pos_hits > neg_hits THEN <<"More positive", pos_hits, neg_hits>>
                       ELSE IF neg_hits > pos_hits THEN <<"More negative", neg_hits, neg_hits>>
                       ELSE <<"Equal/zero", pos_hits, neg_hits>>])

\* ------------------------------------------- tools.py: date_utility_tool
\* A date is its proleptic ordinal, as date.toordinal() gives it.
TIMEDELTA_MAX_DAYS == 999999999
DATE_MAX_ORDINAL == 3652059

date_utility_tool_handler_reraise(e) == Raised(e)

\* `except Exception as e: return f"ERROR: {type(e).__name__}: {e}"`
date_utility_tool_handler(e) ==
    IF is_Exception(e) THEN ReturnedError(e, <<"ERROR: ", e>>) ELSE Raised(e)

\* isinstance(days, int): bool is a subclass of int
is_int(v) == v.type \in {"int", "bool"}

date_utility_tool(days, today) ==
    IF days.type = "NoneType" THEN date_utility_tool_handler("ValueError")
    ELSE IF ~is_int(days) THEN date_utility_tool_handler("TypeError")
    ELSE LET n == IF days.type = "bool" THEN (IF days.value THEN 1 ELSE 0) ELSE days.value
         IN  IF n > TIMEDELTA_MAX_DAYS \/ n < 0 - TIMEDELTA_MAX_DAYS
             THEN date_utility_tool_handler("OverflowError")
             ELSE IF today + n < 1 \/ today + n > DATE_MAX_ORDINAL
             THEN date_utility_tool_handler("OverflowError")
             ELSE Returned([isoformat |-> today + n])

\* -------------------------------------------- tools.py: weather_api_tool
\* the names tools.py binds at module level
module_names ==
    {"ast", "json", "op", "re", "urllib", "date", "timedelta", "Optional", "tool",
     "_ALLOWED_BIN_OPS", "_ALLOWED_UNARY_OPS", "_safe_eval_math", "math_tool",
     "_POS_WORDS", "_NEG_WORDS", "text_analyzer_tool", "date_utility_tool",
     "_http_get_json", "weather_api_tool"}

\* what urlopen and json.loads can do for one request
HttpOracles ==
    {"URLError", "JSONDecodeError", "KeyboardInterrupt", "not_a_dict",
     "error_object", "missing_location", "missing_current", "weather"}

weather_api_tool_handler_reraise(e) == Raised(e)

\* `except Exception as e: return {"error": f"{type(e).__name__}: {e}"}`
weather_api_tool_handler(e) ==
    IF is_Exception(e) THEN ReturnedError(e, [error |-> e]) ELSE Raised(e)

\* `not city or not city.strip()`
city_missing(city) ==
    CASE city.type = "NoneType" -> "yes"
      [] city.type = "str" -> IF strip(city.value) = <<>> THEN "yes" ELSE "no"
      [] city.type = "int" -> IF city.value = 0 THEN "yes" ELSE "AttributeError"

weather_api_tool(city, country, http) ==
    IF city_missing(city) = "yes" THEN weather_api_tool_handler("ValueError")
    ELSE IF city_missing(city) # "no" THEN weather_api_tool_handler(city_missing(city))
    ELSE IF "os" \notin module_names THEN weather_api_tool_handler("NameError")
    ELSE IF http \in {"URLError", "JSONDecodeError", "KeyboardInterrupt"}
    THEN weather_api_tool_handler(http)
    ELSE IF http = "not_a_dict" THEN weather_api_tool_handler("AttributeError")
    ELSE IF http = "error_object" THEN ReturnedError("upstream", [error |-> "upstream"])
    ELSE IF http \in {"missing_location", "missing_current"}
    THEN ReturnedError("upstream", [error |-> "Unexpected Weatherstack response"])
    ELSE Returned([location |-> <<city, country>>, current |-> "weather"])

\* ------------------------------------------------------------------ main.py
\* variant: the commands are compared without .lower()
classify_case_sensitive(line) ==
    IF line = <<>> THEN "empty"
    ELSE IF line \in EXIT_COMMANDS THEN "exit"
    ELSE IF line = CLEAR_COMMAND THEN "clear"
    ELSE "chat"

\* classification of the stripped input line by the chain of `if`s of the loop
classify(line) ==
    IF line = <<>> THEN "empty"
    ELSE IF lower(line) \in EXIT_COMMANDS THEN "exit"
    ELSE IF lower(line) = CLEAR_COMMAND THEN "clear"
    ELSE "chat"

\* variant: the Exception handlers leave the loop as well
loop_after_break_on_error(kind, e) ==
    IF kind = "exit" \/ e # "none" THEN "ended" ELSE "chat"

\* where the `while True` loop stands after one iteration: `break` on an exit
\* command and in the KeyboardInterrupt handler; the KeyError and Exception
\* handlers fall through to the next iteration
loop_after(kind, e) ==
    IF kind = "exit" \/ e = "KeyboardInterrupt" THEN "ended" ELSE "chat"

\* variant: the counter is incremented before the pipeline is invoked
count_after_always(count, e) == count + 1

\* conversation_count after a delegated turn: `conversation_count += 1` is
\* the last statement of the try block, reached only when nothing was raised
count_after(count, e) == IF e = "none" THEN count + 1 ELSE count

\* the message an iteration's except clause prints
handler_message(e) ==
    CASE e = "KeyboardInterrupt" -> "interrupted"
      [] e = "KeyError" -> "missing_data"
      [] OTHER -> "error_occurred"

\* ------------------------------------------------------------------- state
VARIABLES
    environ,             \* os.environ entries of the three secrets
    stage,               \* how far the process has got
    user_id,             \* interactive_chat's user_id
    conversation_count,  \* interactive_chat's turn counter
    store,               \* number of facts the Mem0 store holds per user_id
    user_input,          \* the stripped line of the last loop iteration
    kind,                \* its classification ("none" before the first)
    messages,            \* messages["messages"] handed to the pipeline
    memory_context,      \* what retrieve_memories returned
    search_calls,        \* mem0.search calls of the last iteration: request, reply
    agent_calls,         \* agent.invoke calls: conversation submitted, reply
    add_calls,           \* mem0.add calls of the last iteration: request, reply
    response,            \* response["messages"] the pipeline returned
    raised,              \* what reached the loop's try/except
    shown,               \* what the iteration printed to the user
    tool_call,           \* the tool call under way: tool name and arguments
    tool_result          \* what that call gave back across the tool boundary

turn_vars == <<user_input, kind, messages, memory_context, search_calls,
               agent_calls, add_calls, response, raised, shown>>
tool_vars == <<tool_call, tool_result>>
vars == <<environ, stage, user_id, conversation_count, store, user_input, kind,
          messages, memory_context, search_calls, agent_calls, add_calls,
          response, raised, shown, tool_call, tool_result>>

\* no tool call is under way
NoToolCall == [name |-> "none"]
Pending == [state |-> "pending", error |-> "none", value |-> <<>>]

FreshTurn ==
    /\ user_input = <<>>
    /\ kind = "none"
    /\ messages = <<>>
    /\ memory_context = <<>>
    /\ search_calls = <<>>
    /\ agent_calls = <<>>
    /\ add_calls = <<>>
    /\ response = <<>>
    /\ raised = "none"
    /\ shown = "none"

Init ==
    /\ environ \in [Secrets -> EnvValues]
    /\ stage = "cred"
    /\ user_id \in Users
    /\ conversation_count = 0
    /\ store = [u \in Users |-> 0]
    /\ FreshTurn
    /\ tool_call = NoToolCall
    /\ tool_result = Pending

\* cred.py: read the three keys and validate them
LoadCredentials ==
    /\ stage = "cred"
    /\ LET verdict == validate_credentials(getenv(environ, "GEMINI_API_KEY"),
                                           getenv(environ, "WEATHER_API_KEY"),
                                           getenv(environ, "MEM0_API_KEY"))
       IN  stage' = IF verdict = "validated" THEN "client" ELSE "config_error"
    /\ UNCHANGED <<environ, user_id, conversation_count, store, turn_vars, tool_vars>>

\* client.py: build the chat model client; a failure is logged and re-raised
InitClient ==
    /\ stage = "client"
    /\ \E ok \in BOOLEAN : stage' = IF ok THEN "agent" ELSE "crashed"
    /\ UNCHANGED <<environ, user_id, conversation_count, store, turn_vars, tool_vars>>

\* agent.py, module level: create_agent(model, tools); a failure is re-raised
CreateAgent ==
    /\ stage = "agent"
    /\ \E ok \in BOOLEAN : stage' = IF ok THEN "menu" ELSE "crashed"
    /\ UNCHANGED <<environ, user_id, conversation_count, store, turn_vars, tool_vars>>

\* main.py __main__: the mode menu
ChooseMode ==
    /\ stage = "menu"
    /\ \E choice \in {"1", "2", "other", "KeyboardInterrupt"} :
         stage' = CASE choice = "2" -> "examples"
                    [] choice = "KeyboardInterrupt" -> "ended"
                    [] OTHER -> "chat"
    /\ UNCHANGED <<environ, user_id, conversation_count, store, turn_vars, tool_vars>>

\* one iteration of the loop whose input() returned a line that is not
\* delegated to the pipeline: empty, an exit command, or 'clear'
TurnCommand ==
    /\ stage = "chat"
    /\ \E line \in InputLines :
         LET k == classify(line)
         IN  /\ k # "chat"
             /\ user_input' = line
             /\ kind' = k
             /\ shown' = CASE k = "empty" -> "enter_message"
                           [] k = "exit" -> "goodbye"
                           [] OTHER -> "count"
             /\ stage' = loop_after(k, "none")
    /\ messages' = <<>>
    /\ memory_context' = <<>>
    /\ search_calls' = <<>>
    /\ agent_calls' = <<>>
    /\ add_calls' = <<>>
    /\ response' = <<>>
    /\ raised' = "none"
    /\ UNCHANGED <<environ, user_id, conversation_count, store, tool_vars>>

\* one iteration whose input() raised: Ctrl+C or end of input
TurnInputRaises ==
    /\ stage = "chat"
    /\ \E e \in {"KeyboardInterrupt", "EOFError"} :
         /\ raised' = e
         /\ shown' = handler_message(e)
         /\ stage' = loop_after("none", e)
    /\ user_input' = <<>>
    /\ kind' = "none"
    /\ messages' = <<>>
    /\ memory_context' = <<>>
    /\ search_calls' = <<>>
    /\ agent_calls' = <<>>
    /\ add_calls' = <<>>
    /\ response' = <<>>
    /\ UNCHANGED <<environ, user_id, conversation_count, store, tool_vars>>

\* one iteration that delegates the line to the pipeline as a turn.  An
\* oracle is drawn only for an external call the iteration makes.
TurnChat ==
    /\ stage = "chat"
    /\ conversation_count < MaxTurns
    /\ \E line \in InputLines :
         /\ classify(line) = "chat"
         /\ LET msgs == <<system_prompt, HumanMessage(line)>>
                Run(so, ao, po) ==
                    invoke_agent_with_memory(msgs, user_id, store, so, ao, po)
                Searched ==
                    retrieve_memories(line, user_id, store, QuietSearch).search_calls # <<>>
            IN  \E so \in IF Searched THEN SearchOracles ELSE {QuietSearch} :
                \E ao \in AgentOracles :
                \E po \in IF Run(so, ao, QuietAdd).add_calls # <<>>
                          THEN AddOracles ELSE {QuietAdd} :
                \E r \in {Run(so, ao, po)} :
                      /\ \A u \in Users : r.store[u] <= MaxFacts
                      /\ user_input' = line
                      /\ kind' = "chat"
                      /\ messages' = msgs
                      /\ memory_context' = r.memory_context
                      /\ search_calls' = r.search_calls
                      /\ agent_calls' = r.agent_calls
                      /\ add_calls' = r.add_calls
                      /\ response' = r.response
                      /\ store' = r.store
                      /\ raised' = r.raised
                      /\ shown' = IF r.raised = "none" THEN "answer"
                                  ELSE handler_message(r.raised)
                      /\ conversation_count' = count_after(conversation_count, r.raised)
                      /\ stage' = loop_after("chat", r.raised)
    /\ UNCHANGED <<environ, user_id, tool_vars>>

\* the process is started again, possibly for another user and with another
\* environment; the Mem0 store is a service and keeps what it holds
Relaunch ==
    /\ stage \in {"ended", "config_error", "crashed", "examples"}
    /\ environ' \in [Secrets -> EnvValues]
    /\ user_id' \in Users
    /\ stage' = "cred"
    /\ conversation_count' = 0
    /\ user_input' = <<>>
    /\ kind' = "none"
    /\ messages' = <<>>
    /\ memory_context' = <<>>
    /\ search_calls' = <<>>
    /\ agent_calls' = <<>>
    /\ add_calls' = <<>>
    /\ response' = <<>>
    /\ raised' = "none"
    /\ shown' = "none"
    /\ UNCHANGED <<store, tool_vars>>

Next ==
    \/ LoadCredentials
    \/ InitClient
    \/ CreateAgent
    \/ ChooseMode
    \/ TurnCommand
    \/ TurnInputRaises
    \/ TurnChat
    \/ Relaunch

Spec == Init /\ [][Next]_vars

\* ------------------------------------------------- retrieve_memories alone
\* retrieve_memories called once with a query and a user_id, against a store
\* that holds up to MaxStored facts per user.
RecallOracles ==
    [kind : {"results"}, k : 0..MaxStored]
      \cup [kind : {"no_results_key", "not_a_dict", "raise", "interrupt"}, k : {0}]

RecallInit ==
    /\ environ = [k \in Secrets |-> "key"]
    /\ stage = "recall"
    /\ user_id \in Users
    /\ conversation_count = 0
    /\ store \in [Users -> 0..MaxStored]
    /\ user_input \in InputLines
    /\ kind = "none"
    /\ messages = <<>>
    /\ memory_context = <<>>
    /\ search_calls = <<>>
    /\ agent_calls = <<>>
    /\ add_calls = <<>>
    /\ response = <<>>
    /\ raised = "none"
    /\ shown = "none"
    /\ tool_call = NoToolCall
    /\ tool_result = Pending

Recall ==
    /\ stage = "recall"
    /\ kind = "none"
    /\ \E oracle \in RecallOracles :
         LET rm == retrieve_memories(user_input, user_id, store, oracle)
         IN  /\ memory_context' = rm.ret
             /\ search_calls' = rm.search_calls
             /\ raised' = rm.raised
    /\ kind' = "recalled"
    /\ UNCHANGED <<environ, stage, user_id, conversation_count, store, user_input,
                   messages, agent_calls, add_calls, response, shown, tool_vars>>

RecallNext == Recall

RecallSpec == RecallInit /\ [][RecallNext]_vars

\* --------------------------------------------------------- the tools alone
\* One call of one tool per behaviour: the arguments are drawn in ToolInit and
\* the tool runs to its return (or to an exception leaving it).
Operands == {0, 1, 2, 3, DOUBLE_MANT_DIG}
Leaves == {Constant(v) : v \in Operands}
SignedLeaves == Leaves \cup {UnaryOp(o, l) : o \in ALLOWED_UNARY_OPS, l \in Leaves}
Simple == {BinOp(o, l, r) : o \in ALLOWED_BIN_OPS, l \in Leaves, r \in SignedLeaves}
\* 2 ** 53 and 1 / 2 as left operands
Wide == BinOp("Pow", Constant(2), Constant(DOUBLE_MANT_DIG))
Half == BinOp("Div", Constant(1), Constant(2))
Nested == {BinOp(o, l, r) : o \in ALLOWED_BIN_OPS, l \in {Wide, Half}, r \in Leaves}

Modelled(n) == python_eval(n).err # "unmodelled" /\ _eval(n).err # "unmodelled"

\* expressions over + - * / // % ** whose value this model computes
ArithmeticExprs == {n \in SignedLeaves \cup Simple \cup Nested : Modelled(n)}

\* names, calls, attribute access, string literals, other operators
OtherExprs ==
    {[node |-> k] : k \in {"Name", "Call", "Attribute", "Str"}}
      \cup {BinOp("Add", Constant(1), [node |-> "Call"]),
            BinOp("BitOr", Constant(1), Constant(2)),
            UnaryOp("Invert", Constant(1)),
            UnaryOp("USub", [node |-> "Name"])}

MathArgs ==
    {None, [type |-> "int"]}
      \cup {[type |-> "str", source |-> k] : k \in {"blank", "malformed"}}
      \cup {[type |-> "str", source |-> "parsed", body |-> n] :
              n \in ArithmeticExprs \cup OtherExprs}

RECURSIVE TextsUpTo(_)
TextsUpTo(n) ==
    IF n = 0 THEN {<<>>}
    ELSE TextsUpTo(n - 1) \cup {Append(t, a) : t \in TextsUpTo(n - 1), a \in TextAtoms}

TextArgs ==
    {None, [type |-> "int", value |-> 5]}
      \cup {[type |-> "str", value |-> t] : t \in TextsUpTo(MaxLen)}

DaysArgs ==
    {None, [type |-> "str", value |-> <<"a">>], [type |-> "bool", value |-> TRUE]}
      \cup {[type |-> "int", value |-> n] :
              n \in {-1, 0, 1, 45, TIMEDELTA_MAX_DAYS + 1}}
Todays == {1, 2, DATE_MAX_ORDINAL}

CityArgs ==
    {None, [type |-> "int", value |-> 0], [type |-> "int", value |-> 5]}
      \cup {[type |-> "str", value |-> t] : t \in {<<>>, <<" ">>, <<"a">>, <<" ", "a">>}}
CountryArgs == {None, [type |-> "str", value |-> <<"a">>]}

ToolInit ==
    /\ environ = [k \in Secrets |-> "key"]
    /\ stage = "tools"
    /\ user_id = USER_ID
    /\ conversation_count = 0
    /\ store = [u \in Users |-> 0]
    /\ FreshTurn
    /\ tool_result = Pending
    /\ \/ \E e \in MathArgs : tool_call = [name |-> "math_tool", expression |-> e]
       \/ \E t \in TextArgs : tool_call = [name |-> "text_analyzer_tool", text |-> t]
       \/ \E d \in DaysArgs, t \in Todays :
            tool_call = [name |-> "date_utility_tool", days |-> d, today |-> t]
       \/ \E c \in CityArgs, k \in CountryArgs :
            tool_call = [name |-> "weather_api_tool", city |-> c, country |-> k]

ToolUnchanged ==
    UNCHANGED <<environ, stage, user_id, conversation_count, store, turn_vars, tool_call>>

InvokeMathTool ==
    /\ stage = "tools"
    /\ tool_call.name = "math_tool"
    /\ tool_result.state = "pending"
    /\ tool_result' = math_tool(tool_call.expression)
    /\ ToolUnchanged

InvokeTextAnalyzerTool ==
    /\ stage = "tools"
    /\ tool_call.name = "text_analyzer_tool"
    /\ tool_result.state = "pending"
    /\ tool_result' = text_analyzer_tool(tool_call.text)
    /\ ToolUnchanged

InvokeDateUtilityTool ==
    /\ stage = "tools"
    /\ tool_call.name = "date_utility_tool"
    /\ tool_result.state = "pending"
    /\ tool_result' = date_utility_tool(tool_call.days, tool_call.today)
    /\ ToolUnchanged

InvokeWeatherApiTool ==
    /\ stage = "tools"
    /\ tool_call.name = "weather_api_tool"
    /\ tool_result.state = "pending"
    /\ \E http \in HttpOracles :
         tool_result' = weather_api_tool(tool_call.city, tool_call.country, http)
    /\ ToolUnchanged

ToolNext ==
    \/ InvokeMathTool
    \/ InvokeTextAnalyzerTool
    \/ InvokeDateUtilityTool
    \/ InvokeWeatherApiTool

ToolSpec == ToolInit /\ [][ToolNext]_vars

TypeOK ==
    /\ stage \in {"cred", "client", "agent", "menu", "chat", "examples",
                  "ended", "config_error", "crashed"}
    /\ conversation_count \in 0..MaxTurns
    /\ \A u \in Users : store[u] \in 0..MaxFacts
    /\ Len(search_calls) <= 1
    /\ Len(agent_calls) <= 1
    /\ Len(add_calls) <= 1


\* ===================================================================== claims
NonSystem(m) == m.role # "system"
WordCount(text) == Len(split(strip(text)))

\* C1: a turn whose query has fewer than 3 whitespace-separated words gets an
\* empty recall result and makes no mem0.search call; a search call is made
\* only in a turn whose query has 3 or more words.
C1_ShortQuerySkipsStore ==
    kind = "chat" =>
      /\ WordCount(user_input) < 3 => (search_calls = <<>> /\ memory_context = <<>>)
      /\ search_calls # <<>> => WordCount(user_input) >= 3

C1_Witness ==
    /\ kind = "chat"
    /\ WordCount(user_input) = 2
    /\ store[user_id] > 0
    /\ agent_calls # <<>>
    /\ search_calls = <<>>

\* C2: an Exception raised in an iteration of the session loop leaves the loop
\* running, and the loop is left only by an exit command or a
\* KeyboardInterrupt.
C2_LoopSurvivesTurnFailure ==
    [][ stage = "chat" =>
          /\ is_Exception(raised') => stage' = "chat"
          /\ stage' # "chat" => (kind' = "exit" \/ raised' = "KeyboardInterrupt")
      ]_vars

C2_Witness ==
    /\ stage = "chat"
    /\ kind = "chat"
    /\ raised = "Exception"
    /\ agent_calls # <<>>
    /\ shown = "error_occurred"

\* C3: when the agent produced a final answer and mem0.add raises an
\* Exception, nothing is raised to the loop, the pipeline returns the agent's
\* response unchanged and the loop shows the answer as a successful turn.
C3_PersistFailureKeepsAnswer ==
    \A i \in DOMAIN add_calls :
      add_calls[i].reply.raised = "Exception" =>
        /\ raised = "none"
        /\ Len(agent_calls) = 1
        /\ response = agent_calls[1].reply.messages
        /\ shown = "answer"
        /\ stage = "chat"

C3_Witness ==
    /\ add_calls # <<>>
    /\ add_calls[1].reply.raised = "Exception"
    /\ shown = "answer"
    /\ response # <<>>

\* C4: when mem0.search raises an Exception or returns no results,
\* retrieve_memories returns the empty result and the agent is invoked once
\* with the system message built for an empty memory context followed by the
\* user's message.
C4_RecallFailureNotFatal ==
    \A i \in DOMAIN search_calls :
      LET reply == search_calls[i].reply
      IN  (reply.raised = "Exception" \/ (reply.raised = "none" /\ reply.results = <<>>)) =>
            /\ memory_context = <<>>
            /\ Len(agent_calls) = 1
            /\ agent_calls[1].request[1] =
                 SystemMessage([policy |-> "system_prompt", memory |-> <<>>, rules |-> TRUE])
            /\ SelectSeq(agent_calls[1].request, NonSystem) = <<HumanMessage(user_input)>>

C4_Witness ==
    /\ search_calls # <<>>
    /\ search_calls[1].reply.raised = "Exception"
    /\ store[user_id] > 0
    /\ shown = "answer"

C9_UserScopedMemory ==
    /\ \A i \in DOMAIN search_calls : search_calls[i].request.filters_user_id = user_id
    /\ \A i \in DOMAIN add_calls : add_calls[i].request.user_id = user_id
    /\ \A j \in DOMAIN memory_context : memory_context[j][2][1] = user_id
    /\ \A i \in DOMAIN agent_calls :
         \A j \in DOMAIN agent_calls[i].request[1].content.memory :
           agent_calls[i].request[1].content.memory[j][2][1] = user_id

C9_Witness ==
    /\ memory_context # <<>>
    /\ agent_calls # <<>>
    /\ add_calls # <<>>
    /\ \E u \in Users : u # user_id /\ store[u] > 0

\* C10: while any of the three secrets is unset or empty the process gets no
\* further than credential loading, which ends in the configuration error;
\* the configuration error is raised only when a secret is missing.
C10_FailFastOnMissingSecret ==
    LET missing == \E k \in Secrets : environ[k] \in {"unset", ""}
    IN  /\ missing => stage \in {"cred", "config_error"}
        /\ stage = "config_error" => missing

C10_Witness ==
    /\ stage = "config_error"
    /\ environ["GEMINI_API_KEY"] = "key"
    /\ environ["WEATHER_API_KEY"] = "key"
    /\ environ["MEM0_API_KEY"] \in {"unset", ""}


\* C11: the line of an iteration is trimmed and classified before anything is
\* delegated: an empty line only prompts again, an exit word in any letter
\* case ends the loop, 'clear' only reports the counter, and none of the three
\* reaches the pipeline (no mem0.search, agent.invoke or mem0.add call); any
\* other line is handed to the pipeline as one turn.
C11_CommandsBypassPipeline ==
    LET word == lower(user_input)
        expected ==
            IF user_input = <<>> THEN "empty"
            ELSE IF word \in { <<"e","x","i","t">>, <<"q","u","i","t">>,
                               <<"b","y","e">>, <<"q">> } THEN "exit"
            ELSE IF word = <<"c","l","e","a","r">> THEN "clear"
            ELSE "chat"
    IN  /\ user_input = strip(user_input)
        /\ kind # "none" => kind = expected
        /\ kind \in {"empty", "exit", "clear"} =>
             /\ messages = <<>>
             /\ search_calls = <<>>
             /\ agent_calls = <<>>
             /\ add_calls = <<>>
             /\ raised = "none"
        /\ kind = "empty" => (shown = "enter_message" /\ stage = "chat")
        /\ kind = "exit" => (shown = "goodbye" /\ stage = "ended")
        /\ kind = "clear" => (shown = "count" /\ stage = "chat")
        /\ kind = "chat" => messages = <<system_prompt, HumanMessage(user_input)>>

C11_Witness ==
    /\ kind = "exit"
    /\ user_input # lower(user_input)
    /\ stage = "ended"
    /\ agent_calls = <<>>

\* C15: a delegated turn calls mem0.add at most once, only after agent.invoke
\* returned a response whose final content was extracted, and with exactly the
\* turn's user query and that final content; a turn whose agent invocation
\* fails or is interrupted, or that is interrupted before it, makes no
\* mem0.add call, leaves the store as it was and reaches the loop as a raised
\* exception.
C15_PersistOnlyAfterFinalAnswer ==
    [][ (stage = "chat" /\ kind' = "chat") =>
          LET answered ==
                  /\ agent_calls' # <<>>
                  /\ agent_calls'[1].reply.raised = "none"
                  /\ agent_calls'[1].reply.has_messages
                  /\ agent_calls'[1].reply.messages # <<>>
          IN  /\ Len(add_calls') <= 1
              /\ add_calls' # <<>> =>
                   /\ answered
                   /\ add_calls'[1].request.interaction =
                        << [role |-> "user", content |-> user_input'],
                           [role |-> "assistant",
                            content |-> agent_calls'[1].reply.messages[
                                          Len(agent_calls'[1].reply.messages)].content] >>
              /\ ~answered =>
                   /\ add_calls' = <<>>
                   /\ store' = store
                   /\ raised' # "none"
      ]_vars

C15_Witness ==
    /\ kind = "chat"
    /\ agent_calls # <<>>
    /\ agent_calls[1].reply.raised = "Exception"
    /\ add_calls = <<>>
    /\ shown = "error_occurred"

C14_RecallAtMostFive ==
    Len(memory_context) <= 5

\* C14 amended: recall asks the store for at most 5 results and serializes
\* every result the store returns, one line per result in the store's ranking
\* order; it holds no more than 5 facts whenever the store returns no more
\* than the limit asked for.
C14_RecallSerializesStoreResults ==
    /\ search_calls = <<>> => memory_context = <<>>
    /\ \A i \in DOMAIN search_calls :
         LET request == search_calls[i].request
             reply == search_calls[i].reply
         IN  /\ request.limit = 5
             /\ (reply.raised = "none" /\ reply.shape # "list") =>
                  /\ Len(memory_context) = Len(reply.results)
                  /\ \A j \in DOMAIN memory_context :
                       memory_context[j] = <<"- ", reply.results[j].memory>>
             /\ Len(reply.results) <= request.limit => Len(memory_context) <= 5

C14_Witness ==
    /\ kind = "recalled"
    /\ store[user_id] > 5
    /\ Len(memory_context) = 5
    /\ memory_context[1] = <<"- ", <<user_id, 1>> >>
    /\ memory_context[5] = <<"- ", <<user_id, 5>> >>

\* the result is the tool's in-band error form: an "ERROR: ..." string of
\* math_tool and date_utility_tool, an {error: ...} mapping of the other two
InBandError(name, result) ==
    IF name \in {"math_tool", "date_utility_tool"}
    THEN result.value = <<"ERROR: ", result.error>>
    ELSE DOMAIN result.value = {"error"}

\* the result is the tool's success payload
SuccessPayload(name, result) ==
    CASE name = "math_tool" -> result.value.form \in {"int", "float"}
      [] name = "text_analyzer_tool" ->
           DOMAIN result.value
             = {"word_count", "character_count", "sentiment", "sentiment_reason"}
      [] name = "date_utility_tool" -> DOMAIN result.value = {"isoformat"}
      [] OTHER -> DOMAIN result.value = {"location", "current"}

\* C12: every call of math_tool, text_analyzer_tool, date_utility_tool or
\* weather_api_tool, whatever its arguments (empty, None, wrong-typed) and
\* whatever the upstream service does, returns a value, either a success
\* payload or an in-band error, and no exception leaves the tool.
C12_ToolsNeverRaise ==
    tool_result.state # "pending" =>
      /\ tool_result.state = "returned"
      /\ IF tool_result.error = "none"
         THEN SuccessPayload(tool_call.name, tool_result)
         ELSE InBandError(tool_call.name, tool_result)

C12_Witness ==
    /\ tool_call.name = "weather_api_tool"
    /\ tool_call.city.type = "str"
    /\ strip(tool_call.city.value) # <<>>
    /\ tool_result.state = "returned"
    /\ tool_result.error = "NameError"
    /\ tool_result.value = [error |-> "NameError"]

\* an expression built only from numbers and + - * / // % ** (and unary signs)
RECURSIVE IsArithmetic(_)
IsArithmetic(n) ==
    CASE n.node = "Constant" -> TRUE
      [] n.node = "UnaryOp" -> n.op \in ALLOWED_UNARY_OPS /\ IsArithmetic(n.operand)
      [] n.node = "BinOp" ->
           n.op \in ALLOWED_BIN_OPS /\ IsArithmetic(n.left) /\ IsArithmetic(n.right)
      [] OTHER -> FALSE

\* the number a result text of math_tool denotes equals the number v
SameNumber(text, v) == text.neg = v.neg /\ text.mag = v.mag /\ text.den = v.den

\* C13: for an arithmetic expression over + - * / // % ** the result of
\* math_tool equals the value a standard expression evaluator gives it (an
\* error result where that evaluator divides by zero), and for any other
\* syntax the result is an error.
C13_MathMatchesStandardEvaluator ==
    (/\ tool_call.name = "math_tool"
     /\ tool_result.state # "pending"
     /\ tool_call.expression.type = "str"
     /\ tool_call.expression.source = "parsed")
    => LET n == tool_call.expression.body
           v == python_eval(n)
       IN  IF ~IsArithmetic(n)
           THEN tool_result.state = "returned" /\ tool_result.error = "ValueError"
           ELSE IF v.err # "none"
           THEN tool_result.state = "returned" /\ tool_result.error = v.err
           ELSE /\ tool_result.state = "returned"
                /\ tool_result.error = "none"
                /\ SameNumber(tool_result.value, v)

====
